---- MODULE Spec2Model ----
(***************************************************************************)
(* Model of Hashcracky/Brainstorm: the streaming scheduler ProcessStream   *)
(* (pkg/mutate/mutate_util.go) and the pure stages of the line pipeline    *)
(* (generateNGrams, applyPostFilters, ...).                                *)
(*                                                                         *)
(* Byte strings are sequences of one-character strings.                    *)
(***************************************************************************)
EXTENDS Integers, Sequences, FiniteSets, TLC

(***************************************************************************)
(* Bounds of the model.                                                    *)
(***************************************************************************)
\* largest number of lines held by the source (stdin)
MaxLines == 3
\* largest value of runtime.NumCPU()
MaxWorkers == 2
\* largest number of output strings TransformLine yields for one line
MaxOut == 2
\* capacity of taskCh; the source uses 1024 (make(chan lineTask, 1024)),
\* the model scales it down so that a full queue is reachable
TaskChCap == 1

VARIABLES
    \* ---- the environment of ProcessStream
    nLines,        \* number of lines the source holds
    finalNewline,  \* whether the last line of the source ends in '\n'
    nOut,          \* nOut[l]: number of output strings of TransformLine(cfg, line l)
    workerCount,   \* runtime.NumCPU()
    lineText,      \* lineText[l]: the bytes of line l (<<>> where the text is left open)
    out,           \* out[l]: the output strings of TransformLine(cfg, line l)
    \* ---- the main goroutine (reader)
    rpc,           \* position of the main goroutine
    nread,         \* number of source lines consumed by reader.ReadBytes
    cur,           \* the line held in rawLine (0: len(rawLine) = 0)
    readErr,       \* readErr of the last ReadBytes: "nil", "EOF", "err"
    ret,           \* return value of ProcessStream: "none", "nil", "error"
    \* ---- taskCh
    taskCh,        \* buffered lines, oldest first
    closed,        \* close(taskCh) has been called
    closeCount,    \* number of close(taskCh) calls
    \* ---- the workers
    wpc,           \* wpc[w]: position of worker w
    wtask,         \* wtask[w]: the line worker w holds (0: none)
    wpos,          \* wpos[w]: next output string of processed to be written
    werr,          \* werr[w]: werr != nil in worker w
    \* ---- the writer
    writeMu,       \* holder of writeMu (0: unlocked)
    writerErr,     \* sticky error of the bufio.Writer
    sink,          \* what has been written, in order
    \* ---- history
    taken,         \* taken[l]: times line l was received from taskCh
    produced,      \* produced[l]: times TransformLine ran on line l
    sinkAtFail,    \* the sink when the read failure happened
    \* ---- the pure stages of the line pipeline, one call at a time
    fpc,           \* "idle", "call" (arguments chosen) or "return"
    text,          \* generateNGrams: text
    wordRangeStart,\* generateNGrams: wordRangeStart
    wordRangeEnd,  \* generateNGrams: wordRangeEnd
    nGrams,        \* generateNGrams: the returned slice
    data,          \* applyPostFilters: data
    filtered,      \* applyPostFilters: the returned slice
    input,         \* enforceLengthRange: input
    minLength,     \* enforceLengthRange: minLength
    maxLength,     \* enforceLengthRange: maxLength
    lengthOut,     \* enforceLengthRange: the returned bytes
    sArg,          \* the argument s of a function of the classifier
    syllables,     \* countSyllableLikeSegments: the returned count
    tooManyClusters, \* containsTooManyUncommonClusters: the returned bool
    wordPattern,   \* looksLikeWordPattern: the return statement taken
    line,          \* TransformLine: line
    lineCfg,       \* TransformLine: cfg
    transformed    \* TransformLine: the returned bytes

svars == <<nLines, finalNewline, nOut, workerCount, lineText, out, rpc,
           nread, cur, readErr, ret, taskCh, closed, closeCount, wpc, wtask,
           wpos, werr, writeMu, writerErr, sink, taken, produced, sinkAtFail>>

fvars == <<fpc, text, wordRangeStart, wordRangeEnd, nGrams, data, filtered>>

gvars == <<input, minLength, maxLength, lengthOut, sArg, syllables,
           tooManyClusters, wordPattern, line, lineCfg, transformed>>

vars == <<svars, fvars, gvars>>

\* the goroutines started by  for i := 0; i < workerCount; i++
Workers_extra == 1..(workerCount + 1)
Workers == 1..workerCount
Lines == 1..nLines

\* one output string of a line (kind "str", idx = its position in processed)
\* or the terminator written after processed (kind "nl")
StrItem(l, k) == [line |-> l, kind |-> "str", idx |-> k]
NlItem(l) == [line |-> l, kind |-> "nl", idx |-> 0]

(***************************************************************************)
(* Channel and mutex primitives.                                           *)
(***************************************************************************)
\* taskCh <- x
ChanSend(q, x) == Append(q, x)
\* the value received by  task := range taskCh
ChanFront(q) == Head(q)
\* a channel whose buffer never fills
ChanHasRoom_unbounded(q) == TRUE
\* the send can proceed
ChanHasRoom(q) == Len(q) < TaskChCap
\* the buffer after a receive that fails to remove the value
ChanRest_peek(q) == q
\* the buffer after a receive
ChanRest(q) == Tail(q)
\* a mutex that excludes nobody
MutexFree_always(mu) == TRUE
\* writeMu.Lock() can proceed
MutexFree(mu) == mu = 0
\* a range loop that ends on an empty channel that is still open
RangeDone_early(q, c) == q = <<>>
\* for task := range taskCh ends: the channel is closed and drained
RangeDone(q, c) == q = <<>> /\ c

(***************************************************************************)
(* Init: ProcessStream has been called, nothing has run.                   *)
(***************************************************************************)
\* the source and the machine
SourceInit ==
    /\ nLines \in 0..MaxLines
    /\ finalNewline \in BOOLEAN
    /\ (nLines = 0 => finalNewline)
    /\ workerCount \in 1..MaxWorkers

\* nothing has run
StartState ==
    /\ rpc = "stat"
    /\ nread = 0
    /\ cur = 0
    /\ readErr = "nil"
    /\ ret = "none"
    /\ taskCh = <<>>
    /\ closed = FALSE
    /\ closeCount = 0
    /\ wpc = [w \in Workers |-> "unborn"]
    /\ wtask = [w \in Workers |-> 0]
    /\ wpos = [w \in Workers |-> 0]
    /\ werr = [w \in Workers |-> FALSE]
    /\ writeMu = 0
    /\ writerErr = FALSE
    /\ sink = <<>>
    /\ taken = [l \in 1..nLines |-> 0]
    /\ produced = [l \in 1..nLines |-> 0]
    /\ sinkAtFail = <<>>

SchedInit ==
    /\ SourceInit
    /\ nOut \in [1..nLines -> 0..MaxOut]
    /\ StartState

\* structs.Config; IncludeNonLatin is false throughout
Config(nMin, nMax, oMin, oMax) ==
    [NGramMin |-> nMin, NGramMax |-> nMax,
     OutMinLength |-> oMin, OutMaxLength |-> oMax]

\* enforceLengthRange is not being called
LengthIdle ==
    /\ input = <<>>
    /\ minLength = 0
    /\ maxLength = 0
    /\ lengthOut = <<>>

\* no function of the classifier is being called
ClassifierIdle ==
    /\ sArg = <<>>
    /\ syllables = 0
    /\ tooManyClusters = FALSE
    /\ wordPattern = "none"

\* TransformLine is not being called
TransformIdle ==
    /\ line = <<>>
    /\ lineCfg = Config(1, 5, 4, 32)
    /\ transformed = <<>>

\* generateNGrams is not being called
NGramIdle ==
    /\ text = <<>>
    /\ wordRangeStart = 0
    /\ wordRangeEnd = 0
    /\ nGrams = <<>>

\* applyPostFilters is not being called
FilterIdle ==
    /\ data = <<>>
    /\ filtered = <<>>

\* no pipeline stage is being called on its own
StagesIdle ==
    /\ LengthIdle
    /\ ClassifierIdle
    /\ TransformIdle
    /\ fpc = "idle"
    /\ text = <<>>
    /\ wordRangeStart = 0
    /\ wordRangeEnd = 0
    /\ nGrams = <<>>
    /\ data = <<>>
    /\ filtered = <<>>

\* ProcessStream has not been called
SchedIdle ==
    /\ nLines = 0
    /\ finalNewline = TRUE
    /\ nOut = <<>>
    /\ lineText = <<>>
    /\ out = <<>>
    /\ workerCount = 1
    /\ rpc = "stat"
    /\ nread = 0
    /\ cur = 0
    /\ readErr = "nil"
    /\ ret = "none"
    /\ taskCh = <<>>
    /\ closed = FALSE
    /\ closeCount = 0
    /\ wpc = [w \in Workers |-> "unborn"]
    /\ wtask = [w \in Workers |-> 0]
    /\ wpos = [w \in Workers |-> 0]
    /\ werr = [w \in Workers |-> FALSE]
    /\ writeMu = 0
    /\ writerErr = FALSE
    /\ sink = <<>>
    /\ taken = <<>>
    /\ produced = <<>>
    /\ sinkAtFail = <<>>

envVars == <<nLines, finalNewline, nOut, workerCount, lineText, out>>
chanVars == <<taskCh, closed, closeCount>>
workerVars == <<wpc, wtask, wpos, werr>>
writerVars == <<writeMu, writerErr, sink>>
histVars == <<taken, produced>>

(***************************************************************************)
(* The main goroutine.                                                     *)
(***************************************************************************)
\* os.Stdin.Stat() and the ModeCharDevice test; on success the writer, the
\* channel and the workers are created
StatStdin ==
    /\ rpc = "stat"
    /\ \/ /\ rpc' = "read"
          /\ wpc' = [w \in Workers |-> "recv"]
          /\ ret' = ret
       \/ /\ rpc' = "done"
          /\ ret' = "error"
          /\ wpc' = wpc
    /\ UNCHANGED <<fvars, gvars, envVars, nread, cur, readErr, chanVars, wtask, wpos, werr,
                   writerVars, histVars, sinkAtFail>>

\* rawLine, readErr := reader.ReadBytes('\n')
ReadBytes ==
    /\ rpc = "read"
    /\ \/ \* a complete line, terminated by '\n'
          /\ nread < nLines
          /\ (nread + 1 < nLines \/ finalNewline)
          /\ nread' = nread + 1
          /\ cur' = nread + 1
          /\ readErr' = "nil"
          /\ rpc' = "send"
          /\ sinkAtFail' = sinkAtFail
       \/ \* the final line, not terminated: data together with io.EOF
          /\ nread + 1 = nLines
          /\ ~finalNewline
          /\ nread' = nread + 1
          /\ cur' = nread + 1
          /\ readErr' = "EOF"
          /\ rpc' = "send"
          /\ sinkAtFail' = sinkAtFail
       \/ \* end of stream, no data
          /\ nread = nLines
          /\ nread' = nread
          /\ cur' = 0
          /\ readErr' = "EOF"
          /\ rpc' = "close"
          /\ sinkAtFail' = sinkAtFail
       \/ \* read failure after part of a line was read: data and error
          /\ nread < nLines
          /\ nread' = nread + 1
          /\ cur' = nread + 1
          /\ readErr' = "err"
          /\ rpc' = "send"
          /\ sinkAtFail' = sink
       \/ \* read failure, no data
          /\ nread' = nread
          /\ cur' = 0
          /\ readErr' = "err"
          /\ rpc' = "close"
          /\ sinkAtFail' = sink
    /\ UNCHANGED <<fvars, gvars, envVars, ret, chanVars, workerVars, writerVars, histVars>>

\* taskCh <- lineTask{Data: raw}; blocks while the buffer is full
SendTask ==
    /\ rpc = "send"
    /\ ChanHasRoom(taskCh)
    /\ taskCh' = ChanSend(taskCh, cur)
    /\ rpc' = IF readErr = "nil" THEN "read" ELSE "close"
    /\ UNCHANGED <<fvars, gvars, envVars, nread, cur, readErr, ret, closed, closeCount,
                   workerVars, writerVars, histVars, sinkAtFail>>

\* close(taskCh), on io.EOF (line 118) or on a read failure (line 111)
CloseTaskCh ==
    /\ rpc = "close"
    /\ closed' = TRUE
    /\ closeCount' = closeCount + 1
    /\ rpc' = "wait"
    /\ UNCHANGED <<fvars, gvars, envVars, nread, cur, readErr, ret, taskCh, workerVars,
                   writerVars, histVars, sinkAtFail>>

\* a wait that does not wait
AllExited_nowait == TRUE
\* wg.Wait() returns: every worker has run its deferred wg.Done()
AllExited == \A w \in Workers : wpc[w] = "exited"

\* wg.Wait() and the return statement
WaitWorkers ==
    /\ rpc = "wait"
    /\ AllExited
    /\ ret' = IF readErr = "err" THEN "error" ELSE "nil"
    /\ rpc' = "flush"
    /\ UNCHANGED <<fvars, gvars, envVars, nread, cur, readErr, chanVars, workerVars,
                   writerVars, histVars, sinkAtFail>>

\* the deferred function: writeMu.Lock(); _ = writer.Flush(); writeMu.Unlock()
\* the error of Flush is discarded
DeferredFlush ==
    /\ rpc = "flush"
    /\ MutexFree(writeMu)
    /\ \/ writerErr' = writerErr
       \/ writerErr' = TRUE
    /\ rpc' = "done"
    /\ UNCHANGED <<fvars, gvars, envVars, nread, cur, readErr, ret, chanVars, workerVars,
                   writeMu, sink, histVars, sinkAtFail>>

(***************************************************************************)
(* Worker w.                                                               *)
(***************************************************************************)
\* for task := range taskCh: receive a task
RecvTask(w) ==
    /\ w \in Workers
    /\ wpc[w] = "recv"
    /\ taskCh # <<>>
    /\ wtask' = [wtask EXCEPT ![w] = ChanFront(taskCh)]
    /\ taskCh' = ChanRest(taskCh)
    /\ taken' = [taken EXCEPT ![ChanFront(taskCh)] = @ + 1]
    /\ wpc' = [wpc EXCEPT ![w] = "transform"]
    /\ UNCHANGED <<fvars, gvars, envVars, rpc, nread, cur, readErr, ret, closed, closeCount,
                   wpos, werr, writerVars, produced, sinkAtFail>>

\* for task := range taskCh: the channel is closed and drained; wg.Done()
RangeEnd(w) ==
    /\ w \in Workers
    /\ wpc[w] = "recv"
    /\ RangeDone(taskCh, closed)
    /\ wpc' = [wpc EXCEPT ![w] = "exited"]
    /\ UNCHANGED <<fvars, gvars, envVars, rpc, nread, cur, readErr, ret, chanVars, wtask,
                   wpos, werr, writerVars, histVars, sinkAtFail>>

\* processed := TransformLine(cfg, lineCopy); if len(processed) == 0 { continue }
Transform(w) ==
    /\ w \in Workers
    /\ wpc[w] = "transform"
    /\ produced' = [produced EXCEPT ![wtask[w]] = @ + 1]
    /\ IF nOut[wtask[w]] = 0
       THEN /\ wpc' = [wpc EXCEPT ![w] = "recv"]
            /\ wtask' = [wtask EXCEPT ![w] = 0]
       ELSE /\ wpc' = [wpc EXCEPT ![w] = "lock"]
            /\ wtask' = wtask
    /\ UNCHANGED <<fvars, gvars, envVars, rpc, nread, cur, readErr, ret, chanVars, wpos,
                   werr, writerVars, taken, sinkAtFail>>

\* writeMu.Lock()
Lock(w) ==
    /\ w \in Workers
    /\ wpc[w] = "lock"
    /\ MutexFree(writeMu)
    /\ writeMu' = w
    /\ wpc' = [wpc EXCEPT ![w] = "write"]
    /\ wpos' = [wpos EXCEPT ![w] = 1]
    /\ UNCHANGED <<fvars, gvars, envVars, rpc, nread, cur, readErr, ret, chanVars, wtask,
                   werr, writerErr, sink, histVars, sinkAtFail>>

\* _, werr := writer.Write(processed): the output strings of the line go to
\* the writer one after the other; a failure keeps what was written so far
WriteProcessed(w) ==
    /\ w \in Workers
    /\ wpc[w] = "write"
    /\ \/ /\ ~writerErr
          /\ sink' = Append(sink, StrItem(wtask[w], wpos[w]))
          /\ IF wpos[w] = nOut[wtask[w]]
             THEN /\ wpc' = [wpc EXCEPT ![w] = "nl"]
                  /\ wpos' = wpos
             ELSE /\ wpos' = [wpos EXCEPT ![w] = @ + 1]
                  /\ wpc' = wpc
          /\ UNCHANGED <<werr, writerErr>>
       \/ /\ writerErr' = TRUE
          /\ werr' = [werr EXCEPT ![w] = TRUE]
          /\ wpc' = [wpc EXCEPT ![w] = "unlock"]
          /\ UNCHANGED <<sink, wpos>>
    /\ UNCHANGED <<fvars, gvars, envVars, rpc, nread, cur, readErr, ret, chanVars, wtask,
                   writeMu, histVars, sinkAtFail>>

\* if werr == nil { _, werr = writer.Write([]byte{'\n'}) }
WriteNewline(w) ==
    /\ w \in Workers
    /\ wpc[w] = "nl"
    /\ \/ /\ ~writerErr
          /\ sink' = Append(sink, NlItem(wtask[w]))
          /\ UNCHANGED <<werr, writerErr>>
       \/ /\ writerErr' = TRUE
          /\ werr' = [werr EXCEPT ![w] = TRUE]
          /\ sink' = sink
    /\ wpc' = [wpc EXCEPT ![w] = "unlock"]
    /\ UNCHANGED <<fvars, gvars, envVars, rpc, nread, cur, readErr, ret, chanVars, wtask,
                   wpos, writeMu, histVars, sinkAtFail>>

\* writeMu.Unlock(); if werr != nil { return }  (wg.Done() is deferred)
Unlock(w) ==
    /\ w \in Workers
    /\ wpc[w] = "unlock"
    /\ writeMu' = 0
    /\ wpc' = [wpc EXCEPT ![w] = IF werr[w] THEN "exited" ELSE "recv"]
    /\ wtask' = [wtask EXCEPT ![w] = 0]
    /\ UNCHANGED <<fvars, gvars, envVars, rpc, nread, cur, readErr, ret, chanVars, wpos,
                   werr, writerErr, sink, histVars, sinkAtFail>>

Worker(w) ==
    \/ RecvTask(w)
    \/ RangeEnd(w)
    \/ Transform(w)
    \/ Lock(w)
    \/ WriteProcessed(w)
    \/ WriteNewline(w)
    \/ Unlock(w)

Reader ==
    \/ StatStdin
    \/ ReadBytes
    \/ SendTask
    \/ CloseTaskCh
    \/ WaitWorkers
    \/ DeferredFlush

\* the text of the lines is left open: a line is known by nOut only
TextOpen ==
    /\ lineText = <<>>
    /\ out = <<>>

Init == SchedInit /\ TextOpen /\ StagesIdle

Next ==
    \/ Reader
    \/ \E w \in 1..MaxWorkers : Worker(w)

Spec == Init /\ [][Next]_vars

\* the scheduling of goroutines is fair: a goroutine that can run does run
FairSpec ==
    /\ Spec
    /\ WF_vars(Reader)
    /\ \A w \in 1..MaxWorkers : WF_vars(Worker(w))

(***************************************************************************)
(* Strings.                                                                *)
(***************************************************************************)
\* longest text handed to generateNGrams
MaxTextLen == 5
\* largest value of wordRangeStart and wordRangeEnd
MaxN == 3
\* longest data handed to applyPostFilters
MaxDataLen == 4

\* the characters of the texts; the typographic quotes are one rune each
TextAlphabet == {"a", "b", ".", ",", ";", " "}
DataAlphabet ==
    {"a", "(", ")", "]", "\"", "ldquo", "rdquo", "lsquo", "'", "rsquo",
     "\n"}
\* the tokens "hello and "hello" of the delimiter-balance scenario
ScenarioData ==
    { <<"\"", "h", "e", "l", "l", "o">>,
      <<"\"", "h", "e", "l", "l", "o", "\"">> }

SeqsUpTo(A, n) == UNION {[1..k -> A] : k \in 0..n}

\* the ASCII white space of unicode.IsSpace ("vt" stands for '\v')
WhiteSpace == {" ", "\t", "\n", "\r", "\f", "vt"}
IsSpace(c) == c \in WhiteSpace

\* number of leading characters of s that are not white space
RECURSIVE WordLen(_)
WordLen(s) ==
    IF s = <<>> \/ IsSpace(s[1]) THEN 0 ELSE 1 + WordLen(Tail(s))

\* strings.Fields(s)
RECURSIVE Fields(_)
Fields(s) ==
    IF s = <<>> THEN <<>>
    ELSE IF IsSpace(s[1]) THEN Fields(Tail(s))
    ELSE <<SubSeq(s, 1, WordLen(s))>>
             \o Fields(SubSeq(s, WordLen(s) + 1, Len(s)))

\* strings.Join(elems, sep)
RECURSIVE Join(_, _)
Join(elems, sep) ==
    IF elems = <<>> THEN <<>>
    ELSE IF Len(elems) = 1 THEN elems[1]
    ELSE elems[1] \o sep \o Join(Tail(elems), sep)

\* strings.TrimLeftFunc(s, f) for the characters of cutset
RECURSIVE TrimLeftSet(_, _)
TrimLeftSet(s, cutset) ==
    IF s # <<>> /\ s[1] \in cutset THEN TrimLeftSet(Tail(s), cutset) ELSE s

RECURSIVE TrimRightSet(_, _)
TrimRightSet(s, cutset) ==
    IF s # <<>> /\ s[Len(s)] \in cutset
    THEN TrimRightSet(SubSeq(s, 1, Len(s) - 1), cutset)
    ELSE s

\* strings.TrimSpace(s)
TrimSpace(s) == TrimRightSet(TrimLeftSet(s, WhiteSpace), WhiteSpace)

\* strings.TrimLeft(s, " ")
TrimLeft(s) == TrimLeftSet(s, {" "})

\* strings.ReplaceAll(s, old, "") for a one-character old
RemoveAll(s, old) == SelectSeq(s, LAMBDA c : c # old)

(***************************************************************************)
(* generateNGrams (mutate_util.go, lines 941-962).                         *)
(***************************************************************************)
\* the body of the inner loop: the n-gram of i words at 0-based position j
nGramAt(words, i, j) ==
    RemoveAll(
        RemoveAll(
            RemoveAll(
                TrimLeft(TrimSpace(Join(SubSeq(words, j + 1, j + i), <<" ">>))),
                "."),
            ","),
        ";")

\* an inner loop that stops one window early
LastStart_short(words, i) == Len(words) - i - 1
\* the last j of  for j := 0; j <= len(words)-i; j++
LastStart(words, i) == Len(words) - i

\* the inner loop from j on
RECURSIVE WindowLoop(_, _, _)
WindowLoop(words, i, j) ==
    IF j <= LastStart(words, i)
    THEN <<nGramAt(words, i, j)>> \o WindowLoop(words, i, j + 1)
    ELSE <<>>

\* the outer loop from i on:  for i := wordRangeStart; i <= wordRangeEnd; i++
RECURSIVE SizeLoop(_, _, _)
SizeLoop(words, i, end) ==
    IF i > end THEN <<>>
    ELSE IF i <= 0 \/ i > Len(words) THEN SizeLoop(words, i + 1, end)
    ELSE WindowLoop(words, i, 0) \o SizeLoop(words, i + 1, end)

generateNGrams(t, start, end) == SizeLoop(Fields(t), start, end)

NGramInit ==
    /\ SchedIdle
    /\ LengthIdle
    /\ ClassifierIdle
    /\ TransformIdle
    /\ fpc = "call"
    /\ text \in SeqsUpTo(TextAlphabet, MaxTextLen)
    /\ wordRangeStart \in 0..MaxN
    /\ wordRangeEnd \in 0..MaxN
    /\ nGrams = <<>>
    /\ data = <<>>
    /\ filtered = <<>>

CallGenerateNGrams ==
    /\ fpc = "call"
    /\ nGrams' = generateNGrams(text, wordRangeStart, wordRangeEnd)
    /\ fpc' = "return"
    /\ UNCHANGED <<svars, gvars, text, wordRangeStart, wordRangeEnd, data,
                   filtered>>

NGramNext == CallGenerateNGrams

NGramSpec == NGramInit /\ [][NGramNext]_vars

(***************************************************************************)
(* applyPostFilters (mutate_util.go, lines 1019-1043).                     *)
(***************************************************************************)
\* number of leading characters of d before the first '\n'
RECURSIVE LineLen(_)
LineLen(d) ==
    IF d = <<>> \/ d[1] = "\n" THEN 0 ELSE 1 + LineLen(Tail(d))

\* dropCR of bufio.ScanLines
DropCR(l) ==
    IF l # <<>> /\ l[Len(l)] = "\r" THEN SubSeq(l, 1, Len(l) - 1) ELSE l

\* the tokens of bufio.NewScanner(...) with the default split bufio.ScanLines
RECURSIVE ScanLines(_)
ScanLines(d) ==
    IF d = <<>> THEN <<>>
    ELSE <<DropCR(SubSeq(d, 1, LineLen(d)))>>
             \o (IF LineLen(d) = Len(d) THEN <<>>
                 ELSE ScanLines(SubSeq(d, LineLen(d) + 2, Len(d))))

\* the map openToClose of hasUnbalancedLeadingDelimiter
openToClose ==
    [o \in {"(", "[", "{", "<", "\"", "ldquo", "lsquo"} |->
        CASE o = "(" -> {")"}
          [] o = "[" -> {"]"}
          [] o = "{" -> {"}"}
          [] o = "<" -> {">"}
          [] o = "\"" -> {"\"", "rdquo"}
          [] o = "ldquo" -> {"rdquo", "\""}
          [] o = "lsquo" -> {"rsquo", "'"}]

\* the earlier filter hasUnbalancedDelimiters (lines 808-836): an opener
\* anywhere in the token and no closer anywhere
hasUnbalancedLeadingDelimiter_anywhere(s) ==
    /\ \E p \in 1..Len(s) :
          s[p] \in {"(", "[", "{", "<", "\"", "ldquo", "lsquo", "'"}
    /\ ~\E p \in 1..Len(s) :
          s[p] \in {")", "]", "}", ">", "\"", "rdquo", "rsquo", "'"}

\* a search for the closer that starts at the opener itself
LaterRunes_all(s) == 1..Len(s)
\* the positions of  range runes[1:]
LaterRunes(s) == 2..Len(s)

hasUnbalancedLeadingDelimiter(s) ==
    IF s = <<>> THEN FALSE
    ELSE IF s[1] \notin DOMAIN openToClose THEN FALSE
    ELSE ~\E p \in LaterRunes(s) : s[p] \in openToClose[s[1]]

\* only the ASCII apostrophe
apostrophes_ascii == {"'"}
\* the runes of "'’" (ContainsAny and the strings.Map function)
apostrophes == {"'", "rsquo"}

generateApostropheFreeVariants(s) ==
    LET variant == SelectSeq(s, LAMBDA r : r \notin apostrophes)
    IN  IF ~\E p \in 1..Len(s) : s[p] \in apostrophes THEN <<>>
        ELSE IF variant = <<>> \/ variant = s THEN <<>>
        ELSE <<variant>>

\* the body of the scanner loop of applyPostFilters over the tokens
RECURSIVE PostFilterLoop(_)
PostFilterLoop(tokens) ==
    IF tokens = <<>> THEN <<>>
    ELSE IF tokens[1] = <<>> THEN PostFilterLoop(Tail(tokens))
    ELSE IF hasUnbalancedLeadingDelimiter(tokens[1])
         THEN PostFilterLoop(Tail(tokens))
    ELSE <<tokens[1]>> \o generateApostropheFreeVariants(tokens[1])
             \o PostFilterLoop(Tail(tokens))

applyPostFilters(d) == PostFilterLoop(ScanLines(d))

FilterInit ==
    /\ SchedIdle
    /\ LengthIdle
    /\ ClassifierIdle
    /\ TransformIdle
    /\ fpc = "call"
    /\ text = <<>>
    /\ wordRangeStart = 0
    /\ wordRangeEnd = 0
    /\ nGrams = <<>>
    /\ data \in SeqsUpTo(DataAlphabet, MaxDataLen) \cup ScenarioData
    /\ filtered = <<>>

CallApplyPostFilters ==
    /\ fpc = "call"
    /\ filtered' = applyPostFilters(data)
    /\ fpc' = "return"
    /\ UNCHANGED <<svars, gvars, text, wordRangeStart, wordRangeEnd, nGrams,
                   data>>

FilterNext == CallApplyPostFilters

FilterSpec == FilterInit /\ [][FilterNext]_vars

(***************************************************************************)
(* enforceLengthRange (mutate_util.go, lines 292-303).                     *)
(***************************************************************************)
\* longest input handed to enforceLengthRange
MaxInputLen == 7
\* largest value of minLength and maxLength
MaxLengthArg == 3

LengthAlphabet == {"a", "rsquo", "\n"}

\* number of bytes of the UTF-8 encoding of a rune: the typographic quotes
\* U+2018, U+2019, U+201C, U+201D take three bytes, ASCII takes one
RuneLen(c) == IF c \in {"lsquo", "rsquo", "ldquo", "rdquo"} THEN 3 ELSE 1

\* len(s) of a Go string
RECURSIVE ByteLen(_)
ByteLen(str) == IF str = <<>> THEN 0 ELSE RuneLen(str[1]) + ByteLen(Tail(str))

\* strings.Split(s, "\n")
RECURSIVE SplitLines(_)
SplitLines(d) ==
    IF LineLen(d) = Len(d) THEN <<d>>
    ELSE <<SubSeq(d, 1, LineLen(d))>>
             \o SplitLines(SubSeq(d, LineLen(d) + 2, Len(d)))

\* a test that leaves out the two ends of the range
InLengthRange_exclusive(l, min, max) == ByteLen(l) > min /\ ByteLen(l) < max
\* len(line) >= minLength && len(line) <= maxLength
InLengthRange(l, min, max) == ByteLen(l) >= min /\ ByteLen(l) <= max

\* the loop over lines
RECURSIVE LengthLoop(_, _, _)
LengthLoop(lines, min, max) ==
    IF lines = <<>> THEN <<>>
    ELSE IF InLengthRange(lines[1], min, max)
         THEN <<lines[1]>> \o LengthLoop(Tail(lines), min, max)
    ELSE LengthLoop(Tail(lines), min, max)

enforceLengthRange(in, min, max) ==
    Join(LengthLoop(SplitLines(in), min, max), <<"\n">>)

LengthInit ==
    /\ SchedIdle
    /\ NGramIdle
    /\ FilterIdle
    /\ ClassifierIdle
    /\ TransformIdle
    /\ fpc = "call"
    /\ input \in SeqsUpTo(LengthAlphabet, MaxInputLen)
    /\ minLength \in 0..MaxLengthArg
    /\ maxLength \in 0..MaxLengthArg
    /\ lengthOut = <<>>

CallEnforceLengthRange ==
    /\ fpc = "call"
    /\ lengthOut' = enforceLengthRange(input, minLength, maxLength)
    /\ fpc' = "return"
    /\ UNCHANGED <<svars, text, wordRangeStart, wordRangeEnd, nGrams, data,
                   filtered, input, minLength, maxLength, sArg, syllables,
                   tooManyClusters, wordPattern, line, lineCfg, transformed>>

LengthNext == CallEnforceLengthRange

LengthSpec == LengthInit /\ [][LengthNext]_vars

(***************************************************************************)
(* The classifier (mutate_util.go, lines 188-230 and 312-622).  The        *)
(* strings are ASCII: a byte is a rune.                                    *)
(***************************************************************************)
\* longest string handed to a function of the classifier
MaxStrLen == 7

ClassifierAlphabet == {"a", "b", "v", " ", "'"}

LowerSeq ==
    <<"a", "b", "c", "d", "e", "f", "g", "h", "i", "j", "k", "l", "m",
      "n", "o", "p", "q", "r", "s", "t", "u", "v", "w", "x", "y", "z">>
UpperSeq ==
    <<"A", "B", "C", "D", "E", "F", "G", "H", "I", "J", "K", "L", "M",
      "N", "O", "P", "Q", "R", "S", "T", "U", "V", "W", "X", "Y", "Z">>
LowerLetters == {LowerSeq[p] : p \in 1..26}
UpperLetters == {UpperSeq[p] : p \in 1..26}
Digits == {"0", "1", "2", "3", "4", "5", "6", "7", "8", "9"}

\* unicode.IsLetter, unicode.IsDigit on ASCII
IsLetter(c) == c \in LowerLetters \cup UpperLetters
IsDigit(c) == c \in Digits
\* unicode.IsSymbol(r) || unicode.IsPunct(r): the printable ASCII characters
\* that are neither letter nor digit nor space
IsSymbolOrPunct(c) ==
    ~IsLetter(c) /\ ~IsDigit(c) /\ c \notin WhiteSpace

\* unicode.ToLower, unicode.ToUpper
ToLowerRune(c) ==
    IF c \in UpperLetters
    THEN LowerSeq[CHOOSE p \in 1..26 : UpperSeq[p] = c]
    ELSE c
ToUpperRune(c) ==
    IF c \in LowerLetters
    THEN UpperSeq[CHOOSE p \in 1..26 : LowerSeq[p] = c]
    ELSE c
\* strings.ToLower
ToLower(str) == [p \in 1..Len(str) |-> ToLowerRune(str[p])]

isVowel(r) == r \in {"a", "e", "i", "o", "u", "A", "E", "I", "O", "U"}
isLetterLike(r) == IsLetter(r) \/ r = "'"

\* ---- countSyllableLikeSegments (lines 512-539); positions are 1-based
RECURSIVE SkipNonLetterLike(_, _)
SkipNonLetterLike(lower, i) ==
    IF i <= Len(lower) /\ ~isLetterLike(lower[i])
    THEN SkipNonLetterLike(lower, i + 1) ELSE i
RECURSIVE SkipConsonants(_, _)
SkipConsonants(lower, i) ==
    IF i <= Len(lower) /\ isLetterLike(lower[i]) /\ ~isVowel(lower[i])
    THEN SkipConsonants(lower, i + 1) ELSE i
RECURSIVE SkipVowels(_, _)
SkipVowels(lower, i) ==
    IF i <= Len(lower) /\ isVowel(lower[i])
    THEN SkipVowels(lower, i + 1) ELSE i

\* the outer loop  for i < n
RECURSIVE SyllableLoop(_, _)
SyllableLoop(lower, i) ==
    IF i > Len(lower) THEN 0
    ELSE LET i2 == SkipConsonants(lower, SkipNonLetterLike(lower, i))
         IN  IF i2 <= Len(lower) /\ isVowel(lower[i2])
             THEN 1 + SyllableLoop(lower, SkipVowels(lower, i2))
             ELSE SyllableLoop(lower, i2)

countSyllableLikeSegments(str) == SyllableLoop(ToLower(str), 1)

\* ---- containsTooManyUncommonClusters (lines 429-485)
uncommonBigrams ==
    { <<"q", "x">>, <<"x", "q">>, <<"q", "j">>, <<"j", "q">>, <<"v", "k">>,
      <<"k", "j">>, <<"z", "x">>, <<"x", "k">>, <<"v", "v">>, <<"w", "w">>,
      <<"z", "z">>, <<"q", "q">>, <<"x", "x">>, <<"k", "k">>, <<"j", "j">>,
      <<"g", "f">>, <<"f", "g">>, <<"v", "d">>, <<"d", "v">>, <<"q", "z">>,
      <<"z", "q">>, <<"h", "j">>, <<"j", "h">> }

windowHasVowel(window) == \E p \in 1..Len(window) : isVowel(window[p])

\* the positions i of the loop (1-based) that pass the letter test
BigramPositions(lower) ==
    {i \in 1..(Len(lower) - 1) : IsLetter(lower[i]) /\ IsLetter(lower[i + 1])}
\* totalBigrams, uncommonBigramCnt and noVowelWindowCnt after the loop
totalBigrams(lower) == Cardinality(BigramPositions(lower))
uncommonBigramCnt(lower) ==
    Cardinality({i \in BigramPositions(lower) :
                    <<lower[i], lower[i + 1]>> \in uncommonBigrams})
noVowelWindowCnt(lower) ==
    Cardinality({i \in BigramPositions(lower) :
                    /\ i + 4 <= Len(lower)
                    /\ ~windowHasVowel(SubSeq(lower, i, i + 4))})

\* uncommonRatio > 0.2 is 5 * uncommon > total; noVowelRatio > 0.35 is
\* 20 * noVowel > 7 * total
containsTooManyUncommonClusters(str) ==
    LET lower == ToLower(str)
    IN  IF totalBigrams(lower) = 0 THEN FALSE
        ELSE IF 5 * uncommonBigramCnt(lower) > totalBigrams(lower) THEN TRUE
        ELSE IF 20 * noVowelWindowCnt(lower) > 7 * totalBigrams(lower)
             THEN TRUE
        ELSE FALSE

\* ---- hasHighNonLetterDensity (lines 549-578)
hasHighNonLetterDensity(str) ==
    LET letterCount == Cardinality({p \in 1..Len(str) : IsLetter(str[p])})
        nonLetterCount ==
            Cardinality({p \in 1..Len(str) :
                            ~IsLetter(str[p])
                            /\ (IsDigit(str[p]) \/ IsSymbolOrPunct(str[p]))})
        total == letterCount + nonLetterCount
    IN  IF letterCount = 0 THEN TRUE
        ELSE IF total = 0 THEN FALSE
        ELSE 10 * nonLetterCount > 3 * total

\* ---- hasSuspiciousAlphaNumericRuns (lines 588-622); run is
\* <<currentRunLen, hasLetter, hasDigit>>
RECURSIVE SuspiciousLoop(_, _)
SuspiciousLoop(str, run) ==
    IF str = <<>> THEN FALSE
    ELSE IF IsLetter(str[1]) \/ IsDigit(str[1])
         THEN LET next == <<run[1] + 1, run[2] \/ IsLetter(str[1]),
                            run[3] \/ IsDigit(str[1])>>
              IN  IF next[1] >= 6 /\ next[2] /\ next[3] THEN TRUE
                  ELSE SuspiciousLoop(Tail(str), next)
    ELSE SuspiciousLoop(Tail(str), <<0, FALSE, FALSE>>)

hasSuspiciousAlphaNumericRuns(str) == SuspiciousLoop(str, <<0, FALSE, FALSE>>)

\* ---- looksLikeWordPattern (lines 337-419)
Max(a, b) == IF a > b THEN a ELSE b

\* the loop of lines 373-394; acc is the record of the six counters
RECURSIVE RunLoop(_, _)
RunLoop(str, acc) ==
    IF str = <<>> THEN acc
    ELSE IF ~isLetterLike(str[1]) THEN RunLoop(Tail(str), acc)
    ELSE IF isVowel(str[1])
         THEN RunLoop(Tail(str),
                [acc EXCEPT !.letterCount = @ + 1,
                            !.vowelCount = @ + 1,
                            !.currentVowelRun = @ + 1,
                            !.maxVowelRun = Max(@, acc.currentVowelRun + 1),
                            !.currentConsonantRun = 0])
    ELSE RunLoop(Tail(str),
                [acc EXCEPT !.letterCount = @ + 1,
                            !.currentConsonantRun = @ + 1,
                            !.maxConsonantRun =
                                Max(@, acc.currentConsonantRun + 1),
                            !.currentVowelRun = 0])

RunCounters(str) ==
    RunLoop(str, [vowelCount |-> 0, letterCount |-> 0,
                  maxConsonantRun |-> 0, currentConsonantRun |-> 0,
                  maxVowelRun |-> 0, currentVowelRun |-> 0])

\* the return statement looksLikeWordPattern takes; it returns true at "ok"
looksLikeWordPatternAt(str) ==
    LET syl == countSyllableLikeSegments(str)
        c == RunCounters(str)
    IN  IF Len(str) = 0 THEN "empty"
        ELSE IF hasSuspiciousAlphaNumericRuns(str) THEN "alphaNumericRun"
        ELSE IF hasHighNonLetterDensity(str) THEN "nonLetterDensity"
        ELSE IF containsTooManyUncommonClusters(str) THEN "clusters"
        ELSE IF syl = 0 THEN "noSyllable"
        ELSE IF Len(str) >= 8 /\ syl < 2 THEN "oneSyllable"
        ELSE IF c.letterCount = 0 THEN "noLetter"
        ELSE IF 4 * c.vowelCount < c.letterCount THEN "vowelRatioLow"
        ELSE IF 5 * c.vowelCount > 4 * c.letterCount THEN "vowelRatioHigh"
        ELSE IF c.maxConsonantRun > 4 THEN "consonantRun"
        ELSE IF c.maxVowelRun > 3 THEN "vowelRun"
        ELSE "ok"

looksLikeWordPattern(str) == looksLikeWordPatternAt(str) = "ok"

\* two words whose consonant runs are 2 and 3
ScenarioStrings == {<<"a", "b", "b", " ", "b", "b", "b", "a">>}

ClassifierInit ==
    /\ SchedIdle
    /\ NGramIdle
    /\ FilterIdle
    /\ LengthIdle
    /\ TransformIdle
    /\ fpc = "call"
    /\ sArg \in SeqsUpTo(ClassifierAlphabet, MaxStrLen) \cup ScenarioStrings
    /\ syllables = 0
    /\ tooManyClusters = FALSE
    /\ wordPattern = "none"

otherStageVars ==
    <<text, wordRangeStart, wordRangeEnd, nGrams, data, filtered, input,
      minLength, maxLength, lengthOut, line, lineCfg, transformed>>

CallCountSyllableLikeSegments ==
    /\ fpc = "call"
    /\ syllables' = countSyllableLikeSegments(sArg)
    /\ fpc' = "return"
    /\ UNCHANGED <<svars, otherStageVars, sArg, tooManyClusters, wordPattern>>

SyllableNext == CallCountSyllableLikeSegments

SyllableSpec == ClassifierInit /\ [][SyllableNext]_vars

CallContainsTooManyUncommonClusters ==
    /\ fpc = "call"
    /\ tooManyClusters' = containsTooManyUncommonClusters(sArg)
    /\ fpc' = "return"
    /\ UNCHANGED <<svars, otherStageVars, sArg, syllables, wordPattern>>

ClusterNext == CallContainsTooManyUncommonClusters

ClusterSpec == ClassifierInit /\ [][ClusterNext]_vars

CallLooksLikeWordPattern ==
    /\ fpc = "call"
    /\ wordPattern' = looksLikeWordPatternAt(sArg)
    /\ fpc' = "return"
    /\ UNCHANGED <<svars, otherStageVars, sArg, syllables, tooManyClusters>>

WordPatternNext == CallLooksLikeWordPattern

WordPatternSpec == ClassifierInit /\ [][WordPatternNext]_vars

(***************************************************************************)
(* TransformLine (mutate_util.go, lines 892-907) and the stages it calls.  *)
(* Config.IncludeNonLatin is false and the lines are ASCII.                *)
(***************************************************************************)
\* longest line drawn for TransformLine besides the scenario lines
MaxLineLen == 6

LineAlphabet == {"a", "b", " ", "."}

\* the line of the scenario, "The Quick Brown Fox"
ScenarioLine ==
    <<"T", "h", "e", " ", "Q", "u", "i", "c", "k", " ",
      "B", "r", "o", "w", "n", " ", "F", "o", "x">>
ScenarioLines == {ScenarioLine}
ScenarioCfg == Config(1, 2, 4, 20)
SampleCfgs == {ScenarioCfg, Config(1, 1, 1, 3), Config(2, 3, 1, 32)}

\* line + "\n" for every line of the scanner
RECURSIVE WriteLines(_)
WriteLines(lines) ==
    IF lines = <<>> THEN <<>>
    ELSE lines[1] \o <<"\n">> \o WriteLines(Tail(lines))

\* strings.TrimRightFunc and strings.TrimLeftFunc with !unicode.IsLetter
RECURSIVE TrimRightNonLetters(_)
TrimRightNonLetters(l) ==
    IF l # <<>> /\ ~IsLetter(l[Len(l)])
    THEN TrimRightNonLetters(SubSeq(l, 1, Len(l) - 1)) ELSE l
RECURSIVE TrimLeftNonLetters(_)
TrimLeftNonLetters(l) ==
    IF l # <<>> /\ ~IsLetter(l[1]) THEN TrimLeftNonLetters(Tail(l)) ELSE l

removeTrailingNonLettersDigits(d) ==
    LET lines == ScanLines(d)
    IN  WriteLines([p \in 1..Len(lines) |-> TrimRightNonLetters(lines[p])])

removeLeadingNonLettersDigits(d) ==
    LET lines == ScanLines(d)
    IN  WriteLines([p \in 1..Len(lines) |-> TrimLeftNonLetters(lines[p])])

isAllDigitsOrSpecialChars(str) == \A p \in 1..Len(str) : ~IsLetter(str[p])

isWordLike(str) ==
    /\ \E p \in 1..Len(str) : isVowel(str[p])
    /\ Cardinality({p \in 1..Len(str) :
                       ~isVowel(str[p]) /\ ~IsLetter(str[p])}) <= 1

likelyContainsWords(str) ==
    IF Len(str) < 5 THEN FALSE
    ELSE IF ~looksLikeWordPattern(str) THEN FALSE
    ELSE \E i \in 1..(Len(str) - 4) : isWordLike(SubSeq(str, i, i + 4))

\* the test of the loop of filterLines: the line is written
KeepsLine(l) ==
    /\ TrimSpace(l) # <<>>
    /\ ~isAllDigitsOrSpecialChars(l)
    /\ likelyContainsWords(l)

filterLines(d) == WriteLines(SelectSeq(ScanLines(d), KeepsLine))

\* the loop of generateNGramSliceBytes: newList
RECURSIVE NGramLines(_, _, _)
NGramLines(lines, start, end) ==
    IF lines = <<>> THEN <<>>
    ELSE generateNGrams(lines[1], start, end)
             \o NGramLines(Tail(lines), start, end)

generateNGramSliceBytes(in, start, end) ==
    Join(NGramLines(SplitLines(in), start, end), <<"\n">>)

\* cases.Title(language.Und, cases.NoLower) on letters and spaces: the first
\* letter of every word is upper-cased, the other letters are left alone
Title(str) ==
    [p \in 1..Len(str) |->
        IF p = 1 \/ str[p - 1] = " " THEN ToUpperRune(str[p]) ELSE str[p]]

\* the six ReplaceAll of lines 982-987 ("nul" stands for '\x00')
CleanControl(l) ==
    SelectSeq(l, LAMBDA c : c \notin {"nul", "\n", "\t", "\r", "\f", "vt"})

\* a variant that folds the line to lower case first
Variant_lower(clean) ==
    IF \E p \in 1..Len(clean) : clean[p] = " "
    THEN RemoveAll(Title(ToLower(clean)), " ")
    ELSE RemoveAll(ToLower(clean), " ")
\* the string appended for a line that is not blank (lines 993-1004)
Variant(clean) ==
    IF \E p \in 1..Len(clean) : clean[p] = " "
    THEN RemoveAll(Title(clean), " ")
    ELSE RemoveAll(clean, " ")

RECURSIVE PrepareLoop(_)
PrepareLoop(lines) ==
    IF lines = <<>> THEN <<>>
    ELSE LET clean == CleanControl(lines[1])
         IN  IF TrimSpace(clean) = <<>> THEN PrepareLoop(Tail(lines))
             ELSE <<Variant(clean)>> \o PrepareLoop(Tail(lines))

prepareStringForTransformations(d) == PrepareLoop(ScanLines(d))

\* the line after the three calls of lines 893-895
Normalized(l) ==
    filterLines(removeLeadingNonLettersDigits(
                    removeTrailingNonLettersDigits(l)))

\* newList of generateNGramSliceBytes in the call of line 901
NGramStage(cfg, l) ==
    IF Len(Normalized(l)) = 0 THEN <<>>
    ELSE NGramLines(SplitLines(Normalized(l)), cfg.NGramMin, cfg.NGramMax)

\* a pipeline without the length filter of line 906
TransformLine_unfiltered(cfg, l) ==
    IF Len(Normalized(l)) = 0 THEN <<>>
    ELSE LET chunk1 == generateNGramSliceBytes(Normalized(l), cfg.NGramMin,
                                               cfg.NGramMax)
             chunk2 == Join(prepareStringForTransformations(chunk1), <<"\n">>)
         IN  Join(applyPostFilters(chunk2), <<"\n">>)
TransformLine(cfg, l) ==
    IF Len(Normalized(l)) = 0 THEN <<>>
    ELSE LET chunk1 == generateNGramSliceBytes(Normalized(l), cfg.NGramMin,
                                               cfg.NGramMax)
             chunk2 == Join(prepareStringForTransformations(chunk1), <<"\n">>)
             chunk3 == Join(applyPostFilters(chunk2), <<"\n">>)
         IN  enforceLengthRange(chunk3, cfg.OutMinLength, cfg.OutMaxLength)

TransformInit ==
    /\ SchedIdle
    /\ FilterIdle
    /\ LengthIdle
    /\ ClassifierIdle
    /\ fpc = "call"
    /\ text = <<>>
    /\ wordRangeStart = 0
    /\ wordRangeEnd = 0
    /\ nGrams = <<>>
    /\ line \in SeqsUpTo(LineAlphabet, MaxLineLen) \cup ScenarioLines
    /\ lineCfg \in SampleCfgs
    /\ transformed = <<>>

\* nGrams records the n-grams of the call of line 901
CallTransformLine ==
    /\ fpc = "call"
    /\ nGrams' = NGramStage(lineCfg, line)
    /\ transformed' = TransformLine(lineCfg, line)
    /\ fpc' = "return"
    /\ UNCHANGED <<svars, text, wordRangeStart, wordRangeEnd, data, filtered,
                   input, minLength, maxLength, lengthOut, sArg, syllables,
                   tooManyClusters, wordPattern, line, lineCfg>>

TransformNext == CallTransformLine

TransformSpec == TransformInit /\ [][TransformNext]_vars

(***************************************************************************)
(* ProcessStream over lines whose text is given: the worker's call of      *)
(* TransformLine (line 66) and the bytes it hands to writer.Write.         *)
(***************************************************************************)
SinkCfg == Config(1, 2, 4, 5)
\* an empty line, a line the classifier rejects, a line whose candidates are
\* all too long and a line with two output strings
SampleLines ==
    { <<>>,
      <<"b", "b", "b", "b", "b">>,
      <<"a", "b", "a", "b", "a", "b">>,
      <<"a", "b", "a", "b", " ", "a">> }

\* the strings of processed: writer.Write(processed) sends them to the sink
\* with a '\n' between two of them
OutputStrings(processed) ==
    IF Len(processed) = 0 THEN <<>> ELSE SplitLines(processed)

\* TransformLine(cfg, line) of every sample line
SampleOutput ==
    [t \in SampleLines |-> OutputStrings(TransformLine(SinkCfg, t))]

SinkInit ==
    /\ SourceInit
    /\ LengthIdle
    /\ ClassifierIdle
    /\ NGramIdle
    /\ FilterIdle
    /\ fpc = "idle"
    /\ line = <<>>
    /\ transformed = <<>>
    /\ lineCfg = SinkCfg
    /\ lineText \in [1..nLines -> SampleLines]
    /\ out = [l \in 1..nLines |-> SampleOutput[lineText[l]]]
    /\ nOut = [l \in 1..nLines |-> Len(out[l])]
    /\ StartState

SinkSpec == SinkInit /\ [][Next]_vars

(***************************************************************************)
(* Properties of ProcessStream.                                            *)
(***************************************************************************)
IsPrefix(s, t) == Len(s) <= Len(t) /\ SubSeq(t, 1, Len(s)) = s
Count(seq, x) == Cardinality({p \in 1..Len(seq) : seq[p] = x})
SinkLines == {sink[p].line : p \in 1..Len(sink)}
\* the whole output of line l is in the sink, each part once
WrittenOnce(l) ==
    /\ \A k \in 1..nOut[l] : Count(sink, StrItem(l, k)) = 1
    /\ nOut[l] > 0 => Count(sink, NlItem(l)) = 1
WriteFailed == \E w \in Workers : werr[w]
\* every worker goroutine has returned
NoWorkerRuns == \A w \in DOMAIN wpc : wpc[w] = "exited"
Returned == rpc \in {"flush", "done"}

\* C1: the items one line contributes to the sink (its output strings and
\* its terminator) form one contiguous block: nothing of another line lies
\* between two items of the same line.
C1_LineOutputContiguous ==
    \A p, q \in 1..Len(sink) :
        (p < q /\ sink[p].line = sink[q].line)
            => \A r \in p..q : sink[r].line = sink[p].line

\* C1 witness: a worker is past its second output string, holding the lock,
\* while another worker waits for the lock and a different line is in the sink
C1_Witness ==
    \E w, v \in Workers :
        /\ w # v
        /\ wpc[w] = "nl"
        /\ nOut[wtask[w]] = 2
        /\ wpc[v] = "lock"
        /\ \E l \in SinkLines : l # wtask[w]

C3_ExactlyOnce ==
    /\ \A l \in Lines : taken[l] <= 1 /\ produced[l] <= taken[l]
    /\ \A p, q \in 1..Len(sink) : sink[p] = sink[q] => p = q
    /\ (Returned /\ ret = "nil" /\ ~writerErr /\ readErr # "err")
          => /\ nread = nLines
             /\ \A l \in Lines :
                   taken[l] = 1 /\ produced[l] = 1 /\ WrittenOnce(l)

\* C3 witness: a clean run of two workers over three lines, each with output
C3_Witness ==
    /\ rpc = "done" /\ ret = "nil" /\ ~writerErr
    /\ workerCount = 2 /\ nLines = 3
    /\ \A l \in Lines : nOut[l] > 0 /\ taken[l] = 1 /\ WrittenOnce(l)

\* C4: without read or write error ProcessStream reaches Done under fair
\* scheduling, and it returns nil only when the output of every line of the
\* source, an unterminated final line included, is in the sink.
C4_CleanTermination ==
    /\ [](  (Returned /\ ret = "nil" /\ ~writerErr)
              => (nread = nLines /\ closed /\ NoWorkerRuns
                    /\ \A l \in Lines : WrittenOnce(l)))
    /\ <>(  (rpc = "done" /\ ret = "nil")
              \/ readErr = "err" \/ writerErr \/ ret = "error")

\* C4 witness: Done after a source whose final line has no terminator
C4_Witness ==
    /\ rpc = "done" /\ ret = "nil" /\ ~writerErr
    /\ nLines = 3 /\ ~finalNewline /\ nOut[nLines] > 0
    /\ Count(sink, NlItem(nLines)) = 1

\* C5: once a worker's write has failed ProcessStream does not return nil.
C5_WriteFailureIsFatal == WriteFailed => ret # "nil"

\* C6: the reader is never left blocked on a full task queue with every
\* worker gone.
C6_ReaderNeverStuck ==
    ~(rpc = "send" /\ Len(taskCh) = TaskChCap /\ NoWorkerRuns)

Range(seq) == {seq[p] : p \in 1..Len(seq)}
\* number of whitespace-delimited words of a string
WordCount(g) == Len(Fields(g))
ValidRange == 1 <= wordRangeStart /\ wordRangeStart <= wordRangeEnd

\* C8: for a valid range every n-gram returned by generateNGrams has between
\* wordRangeStart and wordRangeEnd words.
C8_NGramWordCount ==
    (fpc = "return" /\ ValidRange)
        => \A g \in Range(nGrams) :
              WordCount(g) \in wordRangeStart..wordRangeEnd

\* the sizes of the range that have a window in a line of k words
ValidSizes(k) == {n \in wordRangeStart..wordRangeEnd : 1 <= n /\ n <= k}
\* number of n-grams of the sizes below n
RECURSIVE SumWindows(_, _)
SumWindows(S, k) ==
    IF S = {} THEN 0
    ELSE LET m == CHOOSE x \in S : TRUE
         IN  (k - m + 1) + SumWindows(S \ {m}, k)
Offset(n, k) == SumWindows({m \in ValidSizes(k) : m < n}, k)
\* the window of n words starting at word j, joined with single spaces and
\* stripped of '.', ',' and ';'
RECURSIVE JoinWords(_)
JoinWords(ws) ==
    IF Len(ws) = 1 THEN ws[1]
    ELSE ws[1] \o <<" ">> \o JoinWords(Tail(ws))
Window(words, j, n) ==
    SelectSeq(JoinWords([p \in 1..n |-> words[j + p - 1]]),
              LAMBDA c : c \notin {".", ",", ";"})

\* C9: with k the number of words of the text, the result holds, for each
\* size n of the range with 1 <= n <= k, the k-n+1 windows of n words in
\* increasing start position, the smaller sizes first, and nothing else.
C9_NGramWindows ==
    fpc = "return" =>
        LET words == Fields(text)
            k == Len(words)
        IN  /\ Len(nGrams) = SumWindows(ValidSizes(k), k)
            /\ \A n \in ValidSizes(k) :
                  \A j \in 1..(k - n + 1) :
                      nGrams[Offset(n, k) + j] = Window(words, j, n)

\* C9 witness: a text of three distinct words and a range from 0 that
\* reaches beyond the word count: sizes 1 and 2 and 3 are returned, in order
C9_Witness ==
    /\ fpc = "return"
    /\ text = <<"a", " ", "b", " ", ".">>
    /\ wordRangeStart = 0 /\ wordRangeEnd = 3
    /\ nGrams = << <<"a">>, <<"b">>, <<>>, <<"a", " ", "b">>,
                   <<"b", " ">>, <<"a", " ", "b", " ">> >>

(***************************************************************************)
(* Properties of applyPostFilters.                                         *)
(***************************************************************************)
\* the opening delimiters: ( [ { < and the opening quotes
LeadingOpeners == {"(", "[", "{", "<", "\"", "ldquo", "lsquo"}

\* C10: a non-empty token that does not start with an opening delimiter is
\* kept by applyPostFilters, whatever it contains.
C10_NoLeadingOpenerKept ==
    fpc = "return" =>
        \A t \in Range(ScanLines(data)) :
            (t # <<>> /\ t[1] \notin LeadingOpeners) => t \in Range(filtered)

\* C10 witness: a token with an inner '(' and no ')' is kept
C10_Witness ==
    /\ fpc = "return"
    /\ data = <<"a", "(", "a">>
    /\ filtered = << <<"a", "(", "a">> >>
\* the closers that match an opener: the same kind of bracket, and for a
\* quote the closing quote of its kind, straight or curly
MatchingClosers(o) ==
    CASE o = "(" -> {")"}
      [] o = "[" -> {"]"}
      [] o = "{" -> {"}"}
      [] o = "<" -> {">"}
      [] o \in {"\"", "ldquo"} -> {"\"", "rdquo"}
      [] o = "lsquo" -> {"'", "rsquo"}
HasLaterCloser(t) ==
    \E p \in 1..Len(t) : p > 1 /\ t[p] \in MatchingClosers(t[1])
\* data is one token (one line for the scanner)
SingleToken == ScanLines(data) = <<data>>

\* C11: a token that starts with an opening delimiter is dropped if and
\* only if no closer matching that opener comes later in the token; "hello
\* is dropped and "hello" is kept.
C11_LeadingOpenerBalance ==
    (fpc = "return" /\ SingleToken /\ data[1] \in LeadingOpeners)
        => /\ HasLaterCloser(data) => (filtered # <<>> /\ filtered[1] = data)
           /\ ~HasLaterCloser(data) => filtered = <<>>
           /\ data = <<"\"", "h", "e", "l", "l", "o">> => filtered = <<>>
           /\ data = <<"\"", "h", "e", "l", "l", "o", "\"">>
                 => filtered = <<data>>

\* C11 witness: a straight opening quote closed by a curly closing quote
C11_Witness ==
    /\ fpc = "return"
    /\ data = <<"\"", "a", "rdquo">>
    /\ filtered = <<data>>

\* C11 witness of the scenario: "hello" is kept
C11_ScenarioReached ==
    /\ fpc = "return"
    /\ data = <<"\"", "h", "e", "l", "l", "o", "\"">>
    /\ filtered = <<data>>

Apostrophes == {"'", "rsquo"}
WithoutApostrophes(t) == SelectSeq(t, LAMBDA c : c \notin Apostrophes)
HasApostrophe(t) == \E p \in 1..Len(t) : t[p] \in Apostrophes
Survives(t) == t[1] \in LeadingOpeners => HasLaterCloser(t)

\* C12: for a token t that passes the delimiter-balance filter the result is
\* [t] when t has no apostrophe or consists of apostrophes only, and
\* [t, t without its apostrophes] otherwise.
C12_ApostropheVariant ==
    (fpc = "return" /\ SingleToken /\ Survives(data))
        => filtered =
              IF ~HasApostrophe(data) \/ WithoutApostrophes(data) = <<>>
              THEN <<data>>
              ELSE <<data, WithoutApostrophes(data)>>

\* C12 witness: a token with both kinds of apostrophe
C12_Witness ==
    /\ fpc = "return"
    /\ data = <<"a", "'", "a", "rsquo">>
    /\ filtered = <<data, <<"a", "a">> >>
(***************************************************************************)
(* Properties of enforceLengthRange.                                       *)
(***************************************************************************)
\* the candidates of the input: its newline-separated strings
Candidates == SplitLines(input)
\* byte length of a candidate: three bytes for a typographic quote
Bytes(c) ==
    Len(c) + 2 * Cardinality({p \in 1..Len(c) :
                                c[p] \in {"lsquo", "rsquo", "ldquo", "rdquo"}})
Keeps(c) == minLength <= Bytes(c) /\ Bytes(c) <= maxLength
\* the candidates of the input that are to be kept, in input order
KeptCandidates == SelectSeq(Candidates, Keeps)
RECURSIVE JoinNl(_)
JoinNl(cs) ==
    IF cs = <<>> THEN <<>>
    ELSE IF Len(cs) = 1 THEN cs[1]
    ELSE cs[1] \o <<"\n">> \o JoinNl(Tail(cs))

\* C13: enforceLengthRange returns the candidates whose byte length lies in
\* [minLength, maxLength], both ends included, in input order and nothing
\* else.
C13_LengthRange ==
    fpc = "return" => lengthOut = JoinNl(KeptCandidates)

\* C13 witness: candidates of minLength-1, minLength, maxLength and
\* maxLength+1 bytes (0, 1, 3, 4), of which the middle two are returned
C13_Witness ==
    /\ fpc = "return"
    /\ minLength = 1 /\ maxLength = 3
    /\ input = <<"\n", "a", "\n", "rsquo", "\n", "rsquo", "a">>
    /\ lengthOut = <<"a", "\n", "rsquo">>
(***************************************************************************)
(* Properties of the classifier.                                           *)
(***************************************************************************)
Vowels == {"a", "e", "i", "o", "u", "A", "E", "I", "O", "U"}
Letter(c) == c \in LowerLetters \cup UpperLetters
\* the 5-character sliding windows of the string, by start position
Windows5 == 1..(Len(sArg) - 4)
NoVowelWindows5 ==
    {p \in Windows5 : \A q \in p..(p + 4) : sArg[q] \notin Vowels}
\* the letter-adjacent bigrams of the string, by start position
LetterBigrams ==
    {p \in 1..(Len(sArg) - 1) : Letter(sArg[p]) /\ Letter(sArg[p + 1])}
FlaggedBigrams ==
    {p \in LetterBigrams :
        <<ToLowerRune(sArg[p]), ToLowerRune(sArg[p + 1])>> \in uncommonBigrams}
\* more than 0.35 of the windows have no vowel: n / w > 7 / 20
NoVowelWindowReject ==
    20 * Cardinality(NoVowelWindows5) > 7 * Cardinality(Windows5)
\* more than 0.2 of the letter-adjacent bigrams are flagged: f / b > 1 / 5
UncommonBigramReject ==
    5 * Cardinality(FlaggedBigrams) > Cardinality(LetterBigrams)

\* C15: containsTooManyUncommonClusters rejects exactly when the flagged
\* bigrams exceed 0.2 of the letter-adjacent bigrams or the 5-character
\* windows without a vowel exceed 0.35 of the 5-character windows.
C15_ClusterReference ==
    fpc = "return"
        => (tooManyClusters <=> (UncommonBigramReject \/ NoVowelWindowReject))

\* a character that is a letter for the classifier and not a vowel
Consonant(c) == (Letter(c) \/ c = "'") /\ c \notin Vowels
\* a vowel run starts at p, and a run of consonants ends right before it
CountedVowelRunStart(p) ==
    /\ sArg[p] \in Vowels
    /\ p > 1
    /\ Consonant(sArg[p - 1])

\* C16: countSyllableLikeSegments returns the number of vowel runs that
\* directly follow a run of at least one consonant; a vowel run at the start
\* of the string or right after a non-letter is not counted.
C16_SyllablesNeedConsonant ==
    fpc = "return"
        => syllables =
              Cardinality({p \in 1..Len(sArg) : CountedVowelRunStart(p)})

\* n characters from p on satisfy P
AdjacentRun(P(_), n) ==
    \E p \in 1..(Len(sArg) - n + 1) : \A q \in p..(p + n - 1) : P(sArg[q])
IsVowelChar(c) == c \in Vowels

\* C17: the run-length check rejects only a string in which more than 4
\* consonants or more than 3 vowels stand directly next to each other.
C17_RunsAreAdjacent ==
    (fpc = "return" /\ wordPattern \in {"consonantRun", "vowelRun"})
        => (AdjacentRun(Consonant, 5) \/ AdjacentRun(IsVowelChar, 4))
(***************************************************************************)
(* Properties of TransformLine.                                            *)
(***************************************************************************)
The == <<"T", "h", "e">>
Quick == <<"Q", "u", "i", "c", "k">>
Brown == <<"B", "r", "o", "w", "n">>
Fox == <<"F", "o", "x">>
Sp == <<" ">>
ScenarioNGrams ==
    <<The, Quick, Brown, Fox,
      The \o Sp \o Quick, Quick \o Sp \o Brown, Brown \o Sp \o Fox>>
\* the tokens of the output, one per line
RECURSIVE Tokens(_)
Tokens(bs) ==
    IF bs = <<>> THEN <<>>
    ELSE IF \E p \in 1..Len(bs) : bs[p] = "\n"
         THEN LET k == CHOOSE p \in 1..Len(bs) :
                          bs[p] = "\n" /\ \A q \in 1..(p - 1) : bs[q] # "\n"
              IN  <<SubSeq(bs, 1, k - 1)>>
                      \o Tokens(SubSeq(bs, k + 1, Len(bs)))
    ELSE <<bs>>
Lowered(str) == [p \in 1..Len(str) |-> ToLowerRune(str[p])]
ScenarioReturned ==
    fpc = "return" /\ line = ScenarioLine /\ lineCfg = ScenarioCfg
OutputTokens == Range(Tokens(transformed))
DerivedFromTheOrFox(t) == Len(t) = 3 /\ Lowered(t) \in {Lowered(The), Lowered(Fox)}

ReadNotTaken == {l \in 1..nread : taken[l] = 0}
\* the reader stands at  taskCh <- lineTask{...}  and the buffer is full
ReaderBlocked == rpc = "send" /\ Len(taskCh) = TaskChCap
\* this step puts a task into the queue
Enqueues == Len(taskCh') > Len(taskCh)

\* C18 as stated: the number of lines read and not yet taken by a worker is
\* at most the capacity of the task queue.
C18_ReadNotTakenWithinCap == Cardinality(ReadNotTaken) <= TaskChCap

\* C18: the queue never holds more than its capacity, and the lines read and
\* not yet taken are at most the capacity plus the one line the reader holds
\* while it waits; a step enqueues only the line the reader holds, only into
\* a queue with a free slot and never after close; while the queue is full
\* the reader keeps its line and stays at the send.
C18_QueueBounded ==
    /\ [](/\ Len(taskCh) <= TaskChCap
          /\ Cardinality(ReadNotTaken) <= TaskChCap + 1
          /\ Cardinality(ReadNotTaken)
                <= Len(taskCh) + (IF rpc = "send" THEN 1 ELSE 0))
    /\ [][/\ Enqueues => /\ rpc = "send"
                         /\ Len(taskCh) < TaskChCap
                         /\ ~closed
                         /\ taskCh' = Append(taskCh, cur)
          /\ ReaderBlocked => /\ rpc' = "send"
                              /\ cur' = cur
                              /\ nread' = nread
          /\ closed => closed']_vars

\* C18 witness: the queue is full and the reader waits with one more line.
C18_Witness ==
    /\ ReaderBlocked
    /\ Cardinality(ReadNotTaken) = TaskChCap + 1
    /\ \A w \in Workers : wpc[w] \in {"lock", "write", "nl", "unlock"}
(***************************************************************************)
(* Properties of the sink.                                                 *)
(***************************************************************************)
\* the string a "str" item of the sink stands for
ItemString(it) == out[it.line][it.idx]
InOutRange(str) ==
    lineCfg.OutMinLength <= Bytes(str) /\ Bytes(str) <= lineCfg.OutMaxLength
\* worker w holds the write lock or is about to take it
AtWrite(w) == wpc[w] \in {"lock", "write", "nl", "unlock"}

\* C19: every string in the sink is non-empty and its byte length lies in
\* [OutMinLength, OutMaxLength]; a worker takes the write lock and writes only
\* for a line with a non-empty result; an empty line, a rejected line and a
\* line with no candidate left contribute nothing, and no terminator follows
\* the start of the sink or another terminator.
C19_SinkInvariant ==
    /\ \A p \in 1..Len(sink) :
          sink[p].kind = "str"
              => ItemString(sink[p]) # <<>> /\ InOutRange(ItemString(sink[p]))
    /\ \A w \in Workers :
          (AtWrite(w) \/ writeMu = w) => out[wtask[w]] # <<>>
    /\ \A l \in Lines :
          (lineText[l] = <<>> \/ out[l] = <<>>) => l \notin SinkLines
    /\ \A p \in 1..Len(sink) :
          sink[p].kind = "nl"
              => /\ p > 1
                 /\ sink[p - 1].kind = "str"
                 /\ sink[p - 1].line = sink[p].line

\* C19 witness: a run over an empty line, a line with two output strings and
\* a rejected line has ended; only the second line is in the sink.
C19_Witness ==
    /\ rpc = "done"
    /\ nLines = 3
    /\ lineText[1] = <<>>
    /\ Len(out[2]) = 2
    /\ lineText[3] = <<"b", "b", "b", "b", "b">>
    /\ \A l \in Lines : produced[l] = 1
    /\ sink = <<StrItem(2, 1), StrItem(2, 2), NlItem(2)>>
====
